---------------------------- MODULE Spec2Model ----------------------------
(***************************************************************************)
(* MySQL -> PostgreSQL migration tool (src/MigrationScript.py).            *)
(*                                                                         *)
(* Specifications over one set of variables:                               *)
(*   SpecDep     get_table_dependencies as a pure function, applied to     *)
(*               every bounded table listing and foreign-key row list;     *)
(*   SpecSan     sanitize_row applied to bounded source rows;              *)
(*   SpecSchema  get_table_schema applied to bounded DESCRIBE answers;     *)
(*   Spec        migrate_all: the six passes over the resolved table       *)
(*               order, against a target connection with PostgreSQL's      *)
(*               transaction behaviour (autocommit off);                   *)
(*   SpecProc    the whole process: credentials, connects, migrate_all,    *)
(*               interruption, exit status.                                *)
(***************************************************************************)
EXTENDS Integers, Sequences, FiniteSets, Bags, TLC

VARIABLES
    all_tables,      \* get_mysql_tables(): the source listing (SHOW TABLES)
    dependencies,    \* rows <<child_table, parent_table>> of the FK query
    dep_result,      \* what get_table_dependencies returned, or NoResult
    pc,              \* position inside migrate_all
    tables,          \* migrate_all: the resolved order
    ti,              \* index of the table the current pass works on
    offset,          \* migrate_table_data: offset of the next batch
    src_rows,        \* source content: table -> [n |-> row count, bad |-> rows the target rejects]
    pg_work,         \* target database as seen inside the open transaction
    pg_committed,    \* target database as committed
    pg_aborted,      \* the open transaction is in the failed state
    commits,         \* number of pg_conn.commit() calls that made work durable
    log,             \* logging.* records
    stmts,           \* target statements attempted so far
    batch_result,    \* outcome of the last batch written
    reads,           \* rows fetched so far for the table being transferred
    outcome,         \* how migrate_all ended
    visits,          \* the calls migrate_all made: <<pass, step, table>>, in order
    opened,          \* connections and cursors opened so far
    closed,          \* connections and cursors closed so far
    exit_status,     \* the status the process exited with, -1 while it runs
    row,             \* sanitize_row: the source row handed in
    sanitized,       \* sanitize_row: the row returned, once it has returned
    columns,         \* get_table_schema: the rows DESCRIBE answered
    schema           \* get_table_schema: what it returned, once it has returned

depVars == <<all_tables, dependencies, dep_result>>
procVars == <<opened, closed, exit_status>>
pureVars == <<row, sanitized, columns, schema>>
runVars == <<pc, tables, ti, offset, src_rows, pg_work, pg_committed, pg_aborted,
             commits, log, stmts, batch_result, reads, outcome, visits, procVars>>
vars == <<all_tables, dependencies, dep_result, pc, tables, ti, offset, src_rows,
          pg_work, pg_committed, pg_aborted, commits, log, stmts, batch_result,
          reads, outcome, visits, opened, closed, exit_status, row, sanitized,
          columns, schema>>

---------------------------------------------------------------------------
(* Bounds *)

\* longest foreign-key row list handed to get_table_dependencies
MaxEdges == 4

\* most rows a source table holds
MaxRows == 3

\* migrate_table_data's batch_size (1000 in the source), scaled down so that
\* row counts below, equal to and above it fit into MaxRows
batch_size == 2

\* longest column default built from every combination of DefaultChars
MaxDefaultLen == 3

---------------------------------------------------------------------------
(* Sequence helpers *)

Range(s) == {s[i] : i \in 1..Len(s)}

Contains(s, x) == \E i \in 1..Len(s) : s[i] = x

\* position of the first occurrence of x in s, 0 when absent
IndexOf(s, x) == IF Contains(s, x) THEN CHOOSE i \in 1..Len(s) : s[i] = x /\ \A j \in 1..(i-1) : s[j] # x ELSE 0

Reverse(s) == [i \in 1..Len(s) |-> s[Len(s) + 1 - i]]

\* number of positions of s holding x
Occurrences(s, x) == Cardinality({i \in 1..Len(s) : s[i] = x})

\* all sequences of distinct elements of S of length at most n
RECURSIVE DistinctSeqs(_, _)
DistinctSeqs(S, n) ==
    IF n = 0 THEN {<<>>}
    ELSE LET shorter == DistinctSeqs(S, n - 1)
             longest == {q \in shorter : Len(q) = n - 1}
         IN  shorter \cup UNION {{Append(q, x) : x \in S \ Range(q)} : q \in longest}

Max(S) == CHOOSE x \in S : \A y \in S : y <= x

---------------------------------------------------------------------------
(* retry_operation (src/MigrationScript.py:72-88) *)

\* line 72: the attempts the decorator makes by default
max_retries == 3

---------------------------------------------------------------------------
(* sanitize_row (src/MigrationScript.py:157-185) *)

\* Values of a source row. A string is the sequence of its characters.
NoneValue == [kind |-> "none"]

Str(chars) == [kind |-> "str", chars |-> chars]

Bytes(data) == [kind |-> "bytes", data |-> data]

Number(n) == [kind |-> "int", n |-> n]

DigitChars == <<"0", "1", "2", "3", "4", "5", "6", "7", "8", "9">>

IsDigit(ch) == Contains(DigitChars, ch)

DigitValue(ch) == IndexOf(DigitChars, ch) - 1

\* int() of a sequence of digit characters
RECURSIVE ParseInt(_)
ParseInt(chars) ==
    IF chars = <<>> THEN 0
    ELSE 10 * ParseInt(SubSeq(chars, 1, Len(chars) - 1)) + DigitValue(chars[Len(chars)])

\* line 168: re.match(r'^\d{4}-\d{2}-\d{2}', value)
MatchesDatePrefix(chars) ==
    /\ Len(chars) >= 10
    /\ \A i \in {1, 2, 3, 4, 6, 7, 9, 10} : IsDigit(chars[i])
    /\ chars[5] = "-"
    /\ chars[8] = "-"

\* line 171: value.startswith("0000-00-00")
StartsWithZeroDate(chars) ==
    /\ Len(chars) >= 10
    /\ SubSeq(chars, 1, 10) = <<"0", "0", "0", "0", "-", "0", "0", "-", "0", "0">>

\* datetime's calendar: the years 1..9999 and the Gregorian month lengths
IsLeapYear(y) == (y % 4 = 0 /\ y % 100 # 0) \/ y % 400 = 0

DaysInMonth(y, m) ==
    IF m = 2 THEN (IF IsLeapYear(y) THEN 29 ELSE 28)
    ELSE IF m \in {4, 6, 9, 11} THEN 30 ELSE 31

\* datetime.strptime(text, "%Y-%m-%d") returns (TRUE) or raises ValueError
\* (FALSE): the text must be the ten characters of a date of the calendar
StrptimeDate(text) ==
    /\ Len(text) = 10
    /\ MatchesDatePrefix(text)
    /\ LET y == ParseInt(SubSeq(text, 1, 4))
           m == ParseInt(SubSeq(text, 6, 7))
           d == ParseInt(SubSeq(text, 9, 10))
       IN  /\ y >= 1
           /\ m \in 1..12
           /\ d \in 1..DaysInMonth(y, m)

\* line 175 parsing the whole value instead of its first ten characters
DatePartWhole(chars) == chars

\* line 175: value[:10]
DatePart(chars) == SubSeq(chars, 1, IF Len(chars) < 10 THEN Len(chars) ELSE 10)

\* lines 165-184: one value
sanitize_value(value) ==
    IF value.kind = "none" THEN NoneValue
    ELSE IF value.kind = "str" /\ MatchesDatePrefix(value.chars)
         THEN IF StartsWithZeroDate(value.chars) THEN NoneValue
              ELSE IF StrptimeDate(DatePart(value.chars)) THEN value
                   ELSE NoneValue
         ELSE IF value.kind = "bytes" THEN value
              ELSE value

\* lines 162-185
sanitize_row(r) == [key \in DOMAIN r |-> sanitize_value(r[key])]

---------------------------------------------------------------------------
(* get_table_dependencies (src/MigrationScript.py:301-364) *)

NoResult ==
    [ordered |-> <<>>, emitted |-> <<>>, warned |-> FALSE, raised |-> TRUE, none |-> TRUE]

\* lines 331-333: every listed table starts with no children and in-degree 0
EmptyGraph(listing) == [t \in Range(listing) |-> <<>>]

ZeroInDegree(listing) == [t \in Range(listing) |-> 0]

\* line 339 without its second test: a self-reference is an edge as well
IsGraphEdgeWithSelf(graph, child, parent) == parent \in DOMAIN graph

\* line 339: the guard under which a row adds an edge
IsGraphEdge(graph, child, parent) == parent \in DOMAIN graph /\ child # parent

\* lines 336-341: fold the FK rows into graph / in_degree, in row order.
\* g is [graph, in_degree, raised]; raised models the KeyError of
\* in_degree[child] for a child that is not listed.
RECURSIVE AddDependencies(_, _)
AddDependencies(g, deps) ==
    IF deps = <<>> \/ g.raised THEN g
    ELSE LET child  == Head(deps)[1]
             parent == Head(deps)[2]
         IN  IF IsGraphEdge(g.graph, child, parent)
             THEN IF child \notin DOMAIN g.in_degree
                  THEN [g EXCEPT !.raised = TRUE]
                  ELSE AddDependencies(
                         [graph     |-> [g.graph EXCEPT ![parent] = Append(@, child)],
                          in_degree |-> [g.in_degree EXCEPT ![child] = @ + 1],
                          raised    |-> FALSE],
                         Tail(deps))
             ELSE AddDependencies(g, Tail(deps))

\* lines 353-356: visit the children of the table just emitted.
\* k is [queue, in_degree].
RECURSIVE VisitChildren(_, _)
VisitChildren(k, children) ==
    IF children = <<>> THEN k
    ELSE LET child == Head(children)
             deg   == k.in_degree[child] - 1
         IN  VisitChildren(
               [queue     |-> IF deg = 0 THEN Append(k.queue, child) ELSE k.queue,
                in_degree |-> [k.in_degree EXCEPT ![child] = deg]],
               Tail(children))

\* line 344 read from the end of the listing
InitialQueueReversed(listing, in_degree) ==
    Reverse(SelectSeq(listing, LAMBDA t : in_degree[t] = 0))

\* line 344: the tables with in-degree zero, in listing order
InitialQueue(listing, in_degree) == SelectSeq(listing, LAMBDA t : in_degree[t] = 0)

\* lines 348-356: the while loop; returns ordered_tables
RECURSIVE KahnLoop(_, _, _, _)
KahnLoop(queue, ordered_tables, in_degree, graph) ==
    IF queue = <<>> THEN ordered_tables
    ELSE LET current == Head(queue)
             k == VisitChildren([queue |-> Tail(queue), in_degree |-> in_degree],
                                graph[current])
         IN  KahnLoop(k.queue, Append(ordered_tables, current), k.in_degree, graph)

\* line 360 without its filter: every listed table is appended again
RemainingTablesUnfiltered(listing, ordered_tables) == listing

\* line 360: the tables the loop did not emit, in listing order
RemainingTables(listing, ordered_tables) ==
    SelectSeq(listing, LAMBDA t : ~Contains(ordered_tables, t))

\* lines 359-362 taken whatever processed_count is
HandleCircularAlways(listing, ordered_tables) ==
    [ordered |-> ordered_tables \o RemainingTables(listing, ordered_tables),
     warned  |-> TRUE]

\* lines 359-362: the cycle fallback
HandleCircular(listing, ordered_tables) ==
    IF Len(ordered_tables) < Len(listing)
    THEN [ordered |-> ordered_tables \o RemainingTables(listing, ordered_tables),
          warned  |-> TRUE]
    ELSE [ordered |-> ordered_tables, warned |-> FALSE]

\* lines 325-364; emitted is ordered_tables as the while loop leaves it
get_table_dependencies(listing, deps) ==
    LET g == AddDependencies([graph     |-> EmptyGraph(listing),
                              in_degree |-> ZeroInDegree(listing),
                              raised    |-> FALSE], deps)
    IN  IF g.raised
        THEN [ordered |-> <<>>, emitted |-> <<>>, warned |-> FALSE, raised |-> TRUE,
              none |-> FALSE]
        ELSE LET queue == InitialQueue(listing, g.in_degree)
                 ordered_tables == KahnLoop(queue, <<>>, g.in_degree, g.graph)
                 r == HandleCircular(listing, ordered_tables)
             IN  [ordered |-> r.ordered, emitted |-> ordered_tables,
                  warned |-> r.warned, raised |-> FALSE, none |-> FALSE]

---------------------------------------------------------------------------
(* The source databases the runs are checked on *)

\* source table names; MySQL on a case-sensitive file system keeps "T" and "t" apart
TableUniverse == {"T", "t", "u", "v"}

\* str.lower() on a table name (lines 375, 389, 500, 545, 646, 694, ...)
Lower(name) == IF name = "T" THEN "t" ELSE name

TargetNames == {Lower(t) : t \in TableUniverse}

\* SHOW TABLES of the source databases
SourceListings ==
    {<<>>, <<"u">>, <<"t", "u">>, <<"T", "u">>, <<"T", "v">>, <<"T", "t">>, <<"t", "T">>}

\* DESCRIBE: the auto_increment column of a table and its MySQL base type
AutoIncrementType == [t \in TableUniverse |->
    CASE t = "t" -> "int"
      [] t = "T" -> "smallint"
      [] t = "v" -> "bigint"
      [] OTHER   -> "none"]

\* TYPE_MAPPING (lines 40-70), the entries used here, and the 'TEXT' of
\* TYPE_MAPPING.get(base_type, 'TEXT') (line 229) for the others
TypeMapping(base_type) ==
    CASE base_type = "int"       -> "INTEGER"
      [] base_type = "bigint"    -> "BIGINT"
      [] base_type = "smallint"  -> "SMALLINT"
      [] base_type = "tinyint"   -> "SMALLINT"
      [] base_type = "mediumint" -> "INTEGER"
      [] base_type = "varchar"   -> "VARCHAR"
      [] base_type = "char"      -> "CHAR"
      [] base_type = "datetime"  -> "TIMESTAMP"
      [] base_type = "decimal"   -> "NUMERIC"
      [] base_type = "bit"       -> "BOOLEAN"
      [] OTHER                   -> "TEXT"

\* get_table_schema, lines 237-239: the target type of an auto_increment column
AutoIncrementPgType(base_type) ==
    LET pg_type == TypeMapping(base_type)
    IN  IF pg_type = "INTEGER" THEN "SERIAL"
        ELSE IF pg_type = "BIGINT" THEN "BIGSERIAL" ELSE pg_type

\* the CREATE TABLE of this source table gives its id column a backing sequence
CreatesSequence(table) ==
    AutoIncrementType[table] # "none"
    /\ AutoIncrementPgType(AutoIncrementType[table]) \in {"SERIAL", "BIGSERIAL"}

\* INFORMATION_SCHEMA.KEY_COLUMN_USAGE: the foreign keys each table declares
ForeignKeyRows == [t \in TableUniverse |->
    CASE t = "t" -> <<[COLUMN_NAME |-> "u_id", REFERENCED_TABLE_NAME |-> "u"],
                      [COLUMN_NAME |-> "v_id", REFERENCED_TABLE_NAME |-> "u"]>>
      [] t = "T" -> <<[COLUMN_NAME |-> "u_id", REFERENCED_TABLE_NAME |-> "u"]>>
      [] OTHER   -> <<[COLUMN_NAME |-> "parent_id", REFERENCED_TABLE_NAME |-> "u"]>>]

\* get_foreign_keys (lines 274-299): the rows whose referenced table exists
get_foreign_keys(listing, table) ==
    SelectSeq(ForeignKeyRows[table],
              LAMBDA fk : Contains(listing, fk.REFERENCED_TABLE_NAME))

\* s without the repetitions of its elements (SELECT DISTINCT)
RECURSIVE Distinct(_)
Distinct(s) ==
    IF s = <<>> THEN <<>>
    ELSE LET front == Distinct(SubSeq(s, 1, Len(s) - 1))
             last  == s[Len(s)]
         IN  IF Contains(front, last) THEN front ELSE Append(front, last)

\* lines 307-323: SELECT DISTINCT child_table, parent_table over the schema
RECURSIVE DependencyRows(_, _)
DependencyRows(listing, rest) ==
    IF rest = <<>> THEN <<>>
    ELSE LET child == Head(rest)
             fks   == get_foreign_keys(listing, child)
             rows  == [i \in 1..Len(fks) |-> <<child, fks[i].REFERENCED_TABLE_NAME>>]
         IN  Distinct(rows) \o DependencyRows(listing, Tail(rest))

\* INFORMATION_SCHEMA.STATISTICS grouped by index name (lines 453-487)
IndexGroups == [t \in TableUniverse |->
    CASE t = "t" -> <<[name |-> "email", unique |-> TRUE],
                      [name |-> "created", unique |-> FALSE]>>
      [] t = "T" -> <<[name |-> "email", unique |-> TRUE]>>
      [] OTHER   -> <<[name |-> "label", unique |-> FALSE]>>]

\* the rows of a source table; a row is <<table, id>>, id being its auto key
SourceRows(table, n) == {<<table, i>> : i \in 1..n}

\* row counts and rejected rows a source table may have
RowConfigs == UNION {{[n |-> n, bad |-> b] : b \in SUBSET (1..n)} : n \in 0..MaxRows}

---------------------------------------------------------------------------
(* get_table_schema (src/MigrationScript.py:203-272) *)

\* str.strip(), which float() applies to its argument
RECURSIVE StripLeft(_)
StripLeft(chars) ==
    IF chars # <<>> /\ Head(chars) = " " THEN StripLeft(Tail(chars)) ELSE chars

Strip(chars) == Reverse(StripLeft(Reverse(StripLeft(chars))))

\* chars without its leading sign, if it has one
Unsigned(chars) ==
    IF chars # <<>> /\ Head(chars) \in {"+", "-"} THEN Tail(chars) ELSE chars

\* digits, with single underscores between digits allowed
IsDigitGroup(chars) ==
    /\ chars # <<>>
    /\ IsDigit(chars[1])
    /\ IsDigit(chars[Len(chars)])
    /\ \A i \in 1..Len(chars) : IsDigit(chars[i]) \/ chars[i] = "_"
    /\ \A i \in 1..(Len(chars) - 1) : ~(chars[i] = "_" /\ chars[i + 1] = "_")

\* digits, digits. , .digits or digits.digits
IsMantissa(chars) ==
    LET dot == IndexOf(chars, ".")
    IN  IF dot = 0 THEN IsDigitGroup(chars)
        ELSE LET whole    == SubSeq(chars, 1, dot - 1)
                 fraction == SubSeq(chars, dot + 1, Len(chars))
             IN  /\ whole = <<>> \/ IsDigitGroup(whole)
                 /\ fraction = <<>> \/ IsDigitGroup(fraction)
                 /\ whole # <<>> \/ fraction # <<>>

\* a mantissa, optionally followed by e and a signed exponent
IsDecimalNumber(chars) ==
    LET e == IndexOf(chars, "e")
    IN  IF e = 0 THEN IsMantissa(chars)
        ELSE /\ IsMantissa(SubSeq(chars, 1, e - 1))
             /\ IsDigitGroup(Unsigned(SubSeq(chars, e + 1, Len(chars))))

\* the words float() accepts besides numbers (lower case)
SpecialFloats ==
    {<<"n", "a", "n">>, <<"i", "n", "f">>, <<"i", "n", "f", "i", "n", "i", "t", "y">>}

\* line 255: float(col_default) does not raise ValueError
FloatParses(chars) ==
    LET body == Unsigned(Strip(chars))
    IN  body \in SpecialFloats \/ IsDecimalNumber(body)

\* lines 252, 260: col_default.replace("'", "''")
RECURSIVE EscapeQuotes(_)
EscapeQuotes(chars) ==
    IF chars = <<>> THEN <<>>
    ELSE (IF Head(chars) = "'" THEN <<"'", "'">> ELSE <<Head(chars)>>)
         \o EscapeQuotes(Tail(chars))

\* lines 253, 261 with col_default in the place of escaped_default
QuotedUnescaped(chars) == <<"'">> \o chars \o <<"'">>

\* lines 253, 261: '{escaped_default}'
Quoted(chars) == <<"'">> \o EscapeQuotes(chars) \o <<"'">>

CurrentTimestamp ==
    <<"C", "U", "R", "R", "E", "N", "T", "_", "T", "I", "M", "E", "S", "T", "A", "M", "P">>

\* line 250: the base types whose default is always quoted
QuotedBaseTypes == {"char", "varchar", "text", "enum"}

\* line 232: the base types that keep their size
SizedBaseTypes == {"varchar", "char", "decimal", "numeric"}

NoClause == [present |-> FALSE, text |-> <<>>]

Clause(text) == [present |-> TRUE, text |-> text]

\* lines 237, 247: 'auto_increment' in col_extra; Extra is held as its words
HasAutoIncrement(col_extra) == "auto_increment" \in col_extra

\* lines 246-261: the text behind " DEFAULT ", if the clause is emitted
DefaultClause(base_type, col_default, col_extra) ==
    IF col_default # NoneValue /\ ~HasAutoIncrement(col_extra)
    THEN IF col_default.chars = CurrentTimestamp THEN Clause(CurrentTimestamp)
         ELSE IF base_type \in QuotedBaseTypes THEN Clause(Quoted(col_default.chars))
              ELSE IF FloatParses(col_default.chars) THEN Clause(col_default.chars)
                   ELSE Clause(Quoted(col_default.chars))
    ELSE NoClause

\* lines 226-261: the definition of one column, held as the parts of the
\* string "<name> <pg_type>[(<size>)][ NOT NULL][ DEFAULT <text>]"; Type is
\* held as its base type and the text between its parentheses
ColumnDef(column) ==
    LET base_type == column.Type.base
    IN  [name     |-> Lower(column.Field),
         pg_type  |-> IF HasAutoIncrement(column.Extra)
                      THEN AutoIncrementPgType(base_type)
                      ELSE TypeMapping(base_type),
         size     |-> IF column.Type.size # "" /\ base_type \in SizedBaseTypes
                      THEN column.Type.size ELSE "",
         not_null |-> column.Null = "NO",
         default  |-> DefaultClause(base_type, column.Default, column.Extra)]

\* line 223: column_mapping[col_name.lower()] = col_name, the last one wins
ColumnMapping(cols) ==
    [name \in {Lower(cols[i].Field) : i \in 1..Len(cols)} |->
        cols[Max({i \in 1..Len(cols) : Lower(cols[i].Field) = name})].Field]

\* lines 269-270: the lower-case names of the columns with Key = 'PRI'
RECURSIVE PrimaryKeys(_)
PrimaryKeys(cols) ==
    IF cols = <<>> THEN <<>>
    ELSE (IF Head(cols).Key = "PRI" THEN <<Lower(Head(cols).Field)>> ELSE <<>>)
         \o PrimaryKeys(Tail(cols))

NoSchema ==
    [done |-> FALSE, column_defs |-> <<>>, primary_keys |-> <<>>, column_mapping |-> <<>>]

\* lines 203-272
get_table_schema(cols) ==
    [done           |-> TRUE,
     column_defs    |-> [i \in 1..Len(cols) |-> ColumnDef(cols[i])],
     primary_keys   |-> PrimaryKeys(cols),
     column_mapping |-> ColumnMapping(cols)]

---------------------------------------------------------------------------
(* The target connection: psycopg2 with autocommit off *)

NoTable == [exists |-> FALSE, rows |-> EmptyBag, serial |-> FALSE, nextval |-> 0]

EmptyDb == [tables |-> [x \in TargetNames |-> NoTable], constraints |-> {}]

\* a connection value c: the variables an operation on pg_conn / pg_cursor /
\* logging may change
Conn == [work |-> pg_work, committed |-> pg_committed, aborted |-> pg_aborted,
         commits |-> commits, log |-> log, stmts |-> stmts]

\* pg_conn.commit(): a failed transaction is ended by a rollback instead
PgCommit(c) ==
    IF c.aborted
    THEN [c EXCEPT !.work = c.committed, !.aborted = FALSE]
    ELSE [c EXCEPT !.committed = c.work, !.commits = @ + 1]

\* a rollback that undoes row changes only, as on a server whose DDL statements
\* commit implicitly: the constraints created in the transaction stay
PgRollbackKeepingConstraints(c) ==
    LET kept == [c.committed EXCEPT !.constraints = c.work.constraints]
    IN  [c EXCEPT !.work = kept, !.committed = kept, !.aborted = FALSE]

\* pg_conn.rollback(): everything since the last commit is undone, DDL included
PgRollback(c) == [c EXCEPT !.work = c.committed, !.aborted = FALSE]

\* a statement that raised: the transaction is failed until it is ended, and
\* every statement executed in it raises as well
PgStatementFailed(c) == [c EXCEPT !.aborted = TRUE]

Logged(c, level, event, table, detail) ==
    [c EXCEPT !.log = Append(@, <<level, event, table, detail>>)]

Attempted(c, kind, table, detail) ==
    [c EXCEPT !.stmts = @ \cup {<<kind, table, detail>>}]

TableExists(c, target) == c.work.tables[target].exists

RowCount(c, target) == BagCardinality(c.work.tables[target].rows)

\* a SELECT on a target table succeeds
CanQuery(c, target) == ~c.aborted /\ TableExists(c, target)

\* DROP TABLE ... CASCADE: the table, its rows, its sequence, its constraints
\* and the foreign keys that reference it
DropTable(db, target) ==
    [tables      |-> [db.tables EXCEPT ![target] = NoTable],
     constraints |-> {k \in db.constraints : k.table # target /\ k.ref # target}]

---------------------------------------------------------------------------
(* Pass 1: create_pg_table (lines 366-400) *)

\* create_ok: the target accepts the generated CREATE TABLE statement
create_pg_table(c, table, create_ok) ==
    LET target == Lower(table)
        c1 == Attempted(c, "create", table, target)
    IN  IF c1.aborted
        THEN [c |-> PgStatementFailed(c1), raised |-> TRUE]
        ELSE LET c2 == [c1 EXCEPT !.work = DropTable(c1.work, target)]
             IN  IF ~create_ok
                 THEN [c |-> PgStatementFailed(c2), raised |-> TRUE]
                 ELSE [c |-> Logged(
                               [c2 EXCEPT !.work.tables[target] =
                                   [exists |-> TRUE, rows |-> EmptyBag,
                                    serial |-> CreatesSequence(table), nextval |-> 1]],
                               "INFO", "created_table", table, target),
                       raised |-> FALSE]

---------------------------------------------------------------------------
(* Pass 2: migrate_table_data (lines 658-737), validate_data_integrity (635-656) *)

\* line 680: SELECT * ... LIMIT batch_size OFFSET offset carries no ORDER BY, so
\* the server returns the rows at these positions of an order of its choosing
FetchBatch(table, n, off) ==
    LET len == IF n - off < batch_size THEN n - off ELSE batch_size
    IN  {s \in DistinctSeqs(SourceRows(table, n), len) : Len(s) = len}

\* the target accepts this row
RowAccepted(val, bad) == val[2] \notin bad

InsertRows(c, target, vals) ==
    [c EXCEPT !.work.tables[target].rows =
        @ (+) [v \in Range(vals) |-> Occurrences(vals, v)]]

\* lines 726-734: the row-by-row fallback; r is [c, inserted, dropped,
\* no_table], no_table being the rows whose insert met no target table
RECURSIVE InsertRowByRow(_, _, _, _)
InsertRowByRow(r, table, vals, bad) ==
    IF vals = <<>> THEN r
    ELSE LET val == Head(vals)
             target == Lower(table)
             c1 == Attempted(r.c, "insert_row", table, val)
             no_table == IF TableExists(c1, target) THEN r.no_table
                         ELSE Append(r.no_table, val)
         IN  IF CanQuery(c1, target) /\ RowAccepted(val, bad)
             THEN InsertRowByRow(
                    [c |-> PgCommit(InsertRows(c1, target, <<val>>)),
                     inserted |-> Append(r.inserted, val),
                     dropped  |-> r.dropped,
                     no_table |-> no_table],
                    table, Tail(vals), bad)
             ELSE InsertRowByRow(
                    [c |-> Logged(PgRollback(PgStatementFailed(c1)),
                                  "WARNING", "failed_row_insert", table, val),
                     inserted |-> r.inserted,
                     dropped  |-> Append(r.dropped, val),
                     no_table |-> no_table],
                    table, Tail(vals), bad)

\* lines 716-734: one batch; returns [c, inserted, dropped, fallback, no_table]
WriteBatch(c, table, vals, bad) ==
    LET target == Lower(table)
        c1 == Attempted(c, "insert_batch", table, target)
        bulk_no_table == IF TableExists(c1, target) THEN <<>> ELSE vals
    IN  IF CanQuery(c1, target) /\ \A i \in 1..Len(vals) : RowAccepted(vals[i], bad)
        THEN [c |-> PgCommit(InsertRows(c1, target, vals)),
              inserted |-> vals, dropped |-> <<>>, fallback |-> FALSE,
              no_table |-> bulk_no_table]
        ELSE LET c2 == PgRollback(Logged(PgStatementFailed(c1),
                                         "ERROR", "batch_insert_error", table, target))
                 r  == InsertRowByRow([c |-> c2, inserted |-> <<>>, dropped |-> <<>>,
                                       no_table |-> bulk_no_table],
                                      table, vals, bad)
             IN  [c |-> r.c, inserted |-> r.inserted, dropped |-> r.dropped,
                  fallback |-> TRUE, no_table |-> r.no_table]

\* line 651: the comparison of the two counts
RowCountsMatch(mysql_count, pg_count) == mysql_count = pg_count

\* lines 635-656; raised: the count query on the target raised
validate_data_integrity(c, table, mysql_count) ==
    LET target == Lower(table)
        c1 == Attempted(c, "count", table, target)
    IN  IF ~CanQuery(c1, target)
        THEN [c |-> PgStatementFailed(c1), raised |-> TRUE, valid |-> FALSE]
        ELSE IF RowCountsMatch(mysql_count, RowCount(c1, target))
             THEN [c |-> Logged(c1, "INFO", "row_count_validated", table, mysql_count),
                   raised |-> FALSE, valid |-> TRUE]
             ELSE [c |-> Logged(c1, "ERROR", "row_count_mismatch", table,
                                <<mysql_count, RowCount(c1, target)>>),
                   raised |-> FALSE, valid |-> FALSE]

---------------------------------------------------------------------------
(* Pass 3: update_sequences (lines 527-594) *)

\* lines 553-558: the four names tried; the column name "id" is lower case
\* already, so the variants differ in the table part only
SequenceNames(table) == <<Lower(table), table, Lower(table), table>>

\* a sequence of that name exists in the target
SequenceExists(c, seq_table) ==
    seq_table \in TargetNames /\ c.work.tables[seq_table].exists
    /\ c.work.tables[seq_table].serial

\* lines 561-572: r is [c, updated]
RECURSIVE TrySequenceNames(_, _, _, _)
TrySequenceNames(r, table, names, max_val) ==
    IF names = <<>> \/ r.updated THEN r
    ELSE LET seq == Head(names)
             c1  == Attempted(r.c, "setval", table, seq)
         IN  IF ~c1.aborted /\ SequenceExists(c1, seq)
             THEN [c |-> Logged([c1 EXCEPT !.work.tables[seq].nextval = max_val + 1],
                                "INFO", "updated_sequence", table, max_val + 1),
                   updated |-> TRUE]
             ELSE TrySequenceNames([c |-> PgStatementFailed(c1), updated |-> FALSE],
                                   table, Tail(names), max_val)

\* lines 574-594: the catalog lookup after all four names failed
FindSequenceInCatalog(c, table, max_val) ==
    LET c1 == Logged(c, "WARNING", "could_not_update_sequence", table, "id")
        c2 == Attempted(c1, "find_sequence", table, "id")
    IN  IF c2.aborted
        THEN Logged(PgStatementFailed(c2), "ERROR", "failed_to_update_sequence", table, "id")
        ELSE IF SequenceExists(c2, Lower(table))
             THEN Logged([c2 EXCEPT !.work.tables[Lower(table)].nextval = max_val + 1],
                         "INFO", "updated_sequence", table, max_val + 1)
             ELSE c2

\* lines 527-594; raised: SELECT MAX raised
update_sequences(c, table) ==
    IF AutoIncrementType[table] = "none" THEN [c |-> c, raised |-> FALSE]
    ELSE LET target == Lower(table)
             c1 == Attempted(c, "max", table, target)
         IN  IF ~CanQuery(c1, target)
             THEN [c |-> PgStatementFailed(c1), raised |-> TRUE]
             ELSE LET rows == BagToSet(c1.work.tables[target].rows)
                  IN  IF rows = {} THEN [c |-> c1, raised |-> FALSE]
                      ELSE LET max_val == Max({v[2] : v \in rows})
                               r == TrySequenceNames([c |-> c1, updated |-> FALSE],
                                                     table, SequenceNames(table), max_val)
                           IN  IF r.updated THEN [c |-> r.c, raised |-> FALSE]
                               ELSE [c |-> FindSequenceInCatalog(r.c, table, max_val),
                                     raised |-> FALSE]

---------------------------------------------------------------------------
(* Pass 4: create_indexes_and_constraints (lines 489-525) *)

\* a constraint or index statement on its own: the target takes it when the
\* table exists, the name is free and the data does not contradict it
StatementAccepted(c, target, name, rejected) ==
    /\ ~c.aborted
    /\ TableExists(c, target)
    /\ \A k \in c.work.constraints : k.name # name
    /\ name[3] \notin rejected

\* lines 495-525: each statement in its own try/except; rejected: the index
\* names whose statement the target turns down
RECURSIVE create_indexes_and_constraints(_, _, _, _)
create_indexes_and_constraints(c, table, indexes, rejected) ==
    IF indexes = <<>> THEN c
    ELSE LET idx    == Head(indexes)
             target == Lower(table)
             name   == <<IF idx.unique THEN "uk" ELSE "idx", target, idx.name>>
             c1     == Attempted(c, IF idx.unique THEN "unique" ELSE "index", table, name)
             c2     == IF StatementAccepted(c1, target, name, rejected)
                       THEN Logged([c1 EXCEPT !.work.constraints = @ \cup
                                       {[name |-> name, table |-> target, ref |-> target]}],
                                   "INFO", "constraint_added", table, name)
                       ELSE Logged(PgStatementFailed(c1),
                                   "WARNING", "constraint_failed", table, name)
         IN  create_indexes_and_constraints(c2, table, Tail(indexes), rejected)

---------------------------------------------------------------------------
(* Pass 5: add_foreign_keys (lines 402-451) *)

\* lines 408-451: each ALTER TABLE in its own try/except
RECURSIVE add_foreign_keys(_, _, _, _)
add_foreign_keys(c, table, foreign_keys, rejected) ==
    IF foreign_keys = <<>> THEN c
    ELSE LET fk     == Head(foreign_keys)
             target == Lower(table)
             ref    == Lower(fk.REFERENCED_TABLE_NAME)
             name   == <<"fk", target, fk.COLUMN_NAME>>
             c1     == Attempted(c, "fk", table, name)
             c2     == IF StatementAccepted(c1, target, name, rejected)
                          /\ TableExists(c1, ref)
                       THEN Logged([c1 EXCEPT !.work.constraints = @ \cup
                                       {[name |-> name, table |-> target, ref |-> ref]}],
                                   "INFO", "constraint_added", table, name)
                       ELSE Logged(PgStatementFailed(c1),
                                   "WARNING", "constraint_failed", table, name)
         IN  add_foreign_keys(c2, table, Tail(foreign_keys), rejected)

---------------------------------------------------------------------------
(* Pass 6: validate_foreign_keys (lines 596-633) *)

\* lines 603-633; orphaned: the FK columns holding orphaned references.
\* Returns [c, raised, valid]; the first finding ends the function (line 629).
RECURSIVE validate_foreign_keys(_, _, _, _)
validate_foreign_keys(c, table, foreign_keys, orphaned) ==
    IF foreign_keys = <<>> THEN [c |-> c, raised |-> FALSE, valid |-> TRUE]
    ELSE LET fk     == Head(foreign_keys)
             target == Lower(table)
             ref    == Lower(fk.REFERENCED_TABLE_NAME)
             c1     == Attempted(c, "orphan_check", table, fk.COLUMN_NAME)
         IN  IF ~(CanQuery(c1, target) /\ TableExists(c1, ref))
             THEN [c |-> PgStatementFailed(c1), raised |-> TRUE, valid |-> FALSE]
             ELSE IF fk.COLUMN_NAME \in orphaned
                  THEN [c |-> Logged(c1, "WARNING", "orphaned_records", table,
                                     fk.COLUMN_NAME),
                        raised |-> FALSE, valid |-> FALSE]
                  ELSE validate_foreign_keys(
                         Logged(c1, "INFO", "fk_validated", table, fk.COLUMN_NAME),
                         table, Tail(foreign_keys), orphaned)

---------------------------------------------------------------------------
(* generate_migration_report (lines 739-781) *)

\* lines 751-767: one count query per table; raised: a query raised
RECURSIVE generate_migration_report(_, _)
generate_migration_report(c, rest) ==
    IF rest = <<>> THEN [c |-> c, raised |-> FALSE]
    ELSE LET table == Head(rest)
             c1 == Attempted(c, "report_count", table, Lower(table))
         IN  IF ~CanQuery(c1, Lower(table))
             THEN [c |-> PgStatementFailed(c1), raised |-> TRUE]
             ELSE generate_migration_report(c1, Tail(rest))

---------------------------------------------------------------------------
(* migrate_all (lines 783-912) and __main__ (lines 914-937) *)

Running == [status |-> "running", pass |-> 0, kind |-> ""]

NoBatch == [table |-> "", attempted |-> <<>>, inserted |-> <<>>, dropped |-> <<>>,
            fallback |-> FALSE, first |-> FALSE, no_table |-> <<>>, none |-> TRUE]

SetConn(c) ==
    /\ pg_work' = c.work
    /\ pg_committed' = c.committed
    /\ pg_aborted' = c.aborted
    /\ commits' = c.commits
    /\ log' = c.log
    /\ stmts' = c.stmts

\* lines 790-793 and 797-804: the connections and cursors of a run
Resources == {"mysql_conn", "mysql_cursor", "pg_conn", "pg_cursor"}

\* lines 903-910: the order in which the finally block closes them
CloseOrder == <<"mysql_cursor", "mysql_conn", "pg_cursor", "pg_conn">>

\* lines 901-912: one try around the four close() calls, each guarded by
\* "if <resource>"; the first call that raises ends the block
RECURSIVE CloseAll(_, _, _)
CloseAll(rest, is_open, failing) ==
    IF rest = <<>> THEN {}
    ELSE IF Head(rest) \notin is_open THEN CloseAll(Tail(rest), is_open, failing)
         ELSE IF Head(rest) = failing THEN {}
              ELSE {Head(rest)} \cup CloseAll(Tail(rest), is_open, failing)

\* lines 934-937 without the sys.exit(1): an unexpected error is logged and
\* the process ends as after a return
ExitStatusUnexpectedZero(ended) ==
    IF ended \in {"ValueError", "KeyboardInterrupt"} THEN 1 ELSE 0

\* lines 923-937: the status the process exits with; ended tells how the try
\* body of __main__ ended ("returned" when migrate_all returned)
ExitStatus(ended) ==
    IF ended \in {"ValueError", "KeyboardInterrupt", "Exception"} THEN 1 ELSE 0

\* lines 900-912, then the way back through __main__ to the end of the process;
\* failing: the close() call that raises, if any
FinallyClosing(c, ended, failing) ==
    /\ closed' = CloseAll(CloseOrder, opened, failing)
    /\ SetConn(IF failing = "none" THEN c
               ELSE Logged(c, "WARNING", "error_closing", "", failing))
    /\ opened' = opened
    /\ exit_status' = ExitStatus(ended)
    /\ pc' = "done"

Finally(c, ended) == \E failing \in {"none"} \cup opened : FinallyClosing(c, ended, failing)

\* lines 885, 891, 897: pg_conn.rollback() is called inside the except clause,
\* outside any try. It raises when the target connection is lost, which is
\* one of the reasons for the psycopg2.Error being handled; the server has
\* then discarded the open transaction. Closing a lost connection and its
\* cursor does not raise, and the source cursor holds no unread result.
RollbackMayRaise(kind) == kind = "postgres_error" /\ "pg_conn" \in opened

\* lines 881-898: the except clauses log, roll the open transaction back when
\* there is a target connection, and return; lines 900-912 follow
Abort(c, pass, kind) ==
    /\ LET c1 == Logged(c, "ERROR", "migration_failed", kind, pass)
       IN  \/ Finally(IF "pg_conn" \in opened THEN PgRollback(c1) ELSE c1, "returned")
           \/ /\ RollbackMayRaise(kind)
              /\ FinallyClosing(Logged(PgRollback(c1), "ERROR", "top_level", "",
                                       "Exception"),
                                "Exception", "none")
    /\ ti' = ti
    /\ outcome' = [status |-> "failed", pass |-> pass, kind |-> kind]

\* the for loop of a pass goes to its next table, or the next pass begins
Continue(c, here, next) ==
    /\ SetConn(c)
    /\ outcome' = outcome
    /\ IF ti < Len(tables)
       THEN pc' = here /\ ti' = ti + 1
       ELSE pc' = next /\ ti' = 1
    /\ UNCHANGED procVars

\* lines 837-839 without the raise: the failed check is logged and passed over
AfterDataValidationIgnored(valid) == "continue"

\* lines 837-839: migrate_all raises when the row-count check returned False
AfterDataValidation(valid) == IF valid THEN "continue" ELSE "raise"

\* lines 867-868 treating the finding as pass 2 treats a row-count mismatch
AfterForeignKeyValidationRaising(valid) == IF valid THEN "continue" ELSE "raise"

\* lines 867-868: a failed foreign-key validation is logged and nothing else
AfterForeignKeyValidation(valid) == "continue"

\* line 857 without reversed(): pass 5 visits the tables as the other passes do
ForeignKeyPassOrderForward(tbls) == tbls

\* line 857: for table in reversed(tables)
ForeignKeyPassOrder(tbls) == Reverse(tbls)

\* no row was handed to sanitize_row
NoRow == [a |-> NoneValue]

NotSanitized == [done |-> FALSE, row |-> NoRow]

\* the source databases and the empty target a run starts on
InitData ==
    /\ all_tables \in SourceListings
    /\ dependencies = DependencyRows(all_tables, all_tables)
    /\ dep_result = NoResult
    /\ tables = <<>>
    /\ ti = 0
    /\ offset = 0
    /\ src_rows \in {f \in [TableUniverse -> RowConfigs] :
                        \A t \in TableUniverse \ Range(all_tables) : f[t].n = 0}
    /\ pg_work = EmptyDb
    /\ pg_committed = EmptyDb
    /\ pg_aborted = FALSE
    /\ commits = 0
    /\ log = <<>>
    /\ stmts = {}
    /\ batch_result = NoBatch
    /\ reads = <<>>
    /\ outcome = Running
    /\ visits = <<>>
    /\ closed = {}
    /\ exit_status = -1
    /\ row = NoRow
    /\ sanitized = NotSanitized
    /\ columns = <<>>
    /\ schema = NoSchema

\* migrate_all after line 808: both connections are established
Init ==
    /\ InitData
    /\ pc = "order"
    /\ opened = Resources

\* lines 810-817
ResolveOrder ==
    /\ pc = "order"
    /\ LET r == get_table_dependencies(all_tables, dependencies)
       IN  /\ dep_result' = r
           /\ tables' = r.ordered
           /\ IF r.raised
              THEN Abort(Conn, 0, "exception")
              ELSE IF r.ordered = <<>>
                   THEN /\ Finally(Logged(Conn, "WARNING", "no_tables", "", ""), "returned")
                        /\ ti' = ti
                        /\ outcome' = [status |-> "no_tables", pass |-> 0, kind |-> ""]
                   ELSE /\ SetConn(Conn)
                        /\ pc' = "pass1"
                        /\ ti' = 1
                        /\ outcome' = outcome
                        /\ UNCHANGED procVars
    /\ UNCHANGED <<all_tables, dependencies, pureVars, offset, src_rows, batch_result,
                   reads, visits>>

\* lines 822-828
CreateTable ==
    /\ pc = "pass1"
    /\ \E create_ok \in BOOLEAN :
         LET r == create_pg_table(Conn, tables[ti], create_ok)
         IN  IF r.raised
             THEN Abort(r.c, 1, "postgres_error")
             ELSE Continue(r.c, "pass1", "pass2")
    /\ visits' = Append(visits, <<1, "create", tables[ti]>>)
    /\ UNCHANGED <<depVars, pureVars, tables, offset, src_rows, batch_result, reads>>

\* lines 679-734: one iteration of the batch loop of migrate_table_data
MigrateBatch ==
    /\ pc = "pass2"
    /\ offset < src_rows[tables[ti]].n
    /\ \E rows \in FetchBatch(tables[ti], src_rows[tables[ti]].n, offset) :
         LET r == WriteBatch(Conn, tables[ti], rows, src_rows[tables[ti]].bad)
         IN  /\ SetConn(r.c)
             /\ batch_result' = [table |-> tables[ti], attempted |-> rows,
                                 inserted |-> r.inserted, dropped |-> r.dropped,
                                 fallback |-> r.fallback, first |-> commits = 0,
                                 no_table |-> r.no_table, none |-> FALSE]
             /\ reads' = reads \o rows
    /\ offset' = offset + batch_size
    /\ visits' = Append(visits, <<2, "transfer", tables[ti]>>)
    /\ UNCHANGED <<depVars, pureVars, pc, tables, ti, src_rows, outcome, procVars>>

\* lines 668-670 and 736-737 (migrate_table_data returns), then lines 836-839
ValidateTable ==
    /\ pc = "pass2"
    /\ offset >= src_rows[tables[ti]].n
    /\ LET r == validate_data_integrity(Conn, tables[ti], src_rows[tables[ti]].n)
       IN  IF r.raised
           THEN Abort(r.c, 2, "postgres_error") /\ UNCHANGED <<offset, reads>>
           ELSE IF AfterDataValidation(r.valid) = "raise"
                THEN /\ Abort(Logged(r.c, "ERROR", "data_validation_failed",
                                     tables[ti], ""), 2, "exception")
                     /\ UNCHANGED <<offset, reads>>
                ELSE /\ Continue(r.c, "pass2", "pass3")
                     /\ offset' = 0
                     /\ reads' = <<>>
    /\ visits' = Append(visits, <<2, "count", tables[ti]>>)
    /\ UNCHANGED <<depVars, pureVars, tables, src_rows, batch_result>>

\* lines 843-845
UpdateSequences ==
    /\ pc = "pass3"
    /\ LET r == update_sequences(Conn, tables[ti])
       IN  IF r.raised
           THEN Abort(r.c, 3, "postgres_error")
           ELSE Continue(r.c, "pass3", "pass4")
    /\ visits' = Append(visits, <<3, "sequences", tables[ti]>>)
    /\ UNCHANGED <<depVars, pureVars, tables, offset, src_rows, batch_result, reads>>

\* lines 849-853
CreateIndexes ==
    /\ pc = "pass4"
    /\ LET indexes == IndexGroups[tables[ti]]
       IN  \E rejected \in SUBSET {indexes[i].name : i \in 1..Len(indexes)} :
             Continue(create_indexes_and_constraints(Conn, tables[ti], indexes, rejected),
                      "pass4", "pass5")
    /\ visits' = Append(visits, <<4, "indexes", tables[ti]>>)
    /\ UNCHANGED <<depVars, pureVars, tables, offset, src_rows, batch_result, reads>>

\* lines 857-861: the tables are visited in reverse order
AddForeignKeys ==
    /\ pc = "pass5"
    /\ LET table == ForeignKeyPassOrder(tables)[ti]
           foreign_keys == get_foreign_keys(all_tables, table)
       IN  /\ \E rejected \in SUBSET {foreign_keys[i].COLUMN_NAME : i \in 1..Len(foreign_keys)} :
                Continue(add_foreign_keys(Conn, table, foreign_keys, rejected),
                         "pass5", "pass6")
           /\ visits' = Append(visits, <<5, "foreign_keys", table>>)
    /\ UNCHANGED <<depVars, pureVars, tables, offset, src_rows, batch_result, reads>>

\* lines 865-868
ValidateForeignKeys ==
    /\ pc = "pass6"
    /\ LET foreign_keys == get_foreign_keys(all_tables, tables[ti])
       IN  \E orphaned \in SUBSET {foreign_keys[i].COLUMN_NAME : i \in 1..Len(foreign_keys)} :
             LET r == validate_foreign_keys(Conn, tables[ti], foreign_keys, orphaned)
                 c == IF r.valid THEN r.c
                      ELSE Logged(r.c, "WARNING", "fk_validation_issues", tables[ti], "")
             IN  IF r.raised
                 THEN Abort(r.c, 6, "postgres_error")
                 ELSE IF AfterForeignKeyValidation(r.valid) = "raise"
                      THEN Abort(c, 6, "exception")
                      ELSE Continue(c, "pass6", "report")
    /\ visits' = Append(visits, <<6, "validate", tables[ti]>>)
    /\ UNCHANGED <<depVars, pureVars, tables, offset, src_rows, batch_result, reads>>

\* lines 871-879: the report, then the final commit
ReportAndCommit ==
    /\ pc = "report"
    /\ LET r == generate_migration_report(Conn, tables)
       IN  IF r.raised
           THEN Abort(r.c, 7, "postgres_error")
           ELSE /\ Finally(Logged(PgCommit(Logged(r.c, "INFO", "migration_report", "", "")),
                                  "INFO", "all_tables_migrated", "", ""), "returned")
                /\ ti' = ti
                /\ outcome' = [status |-> "committed", pass |-> 7, kind |-> ""]
    /\ UNCHANGED <<depVars, pureVars, tables, offset, src_rows, batch_result, reads, visits>>

Next ==
    \/ ResolveOrder
    \/ CreateTable
    \/ MigrateBatch
    \/ ValidateTable
    \/ UpdateSequences
    \/ CreateIndexes
    \/ AddForeignKeys
    \/ ValidateForeignKeys
    \/ ReportAndCommit

Spec == Init /\ [][Next]_vars

---------------------------------------------------------------------------
(* The whole process: __main__, get_credentials, the two connects, Ctrl-C *)

\* the port numbers tried, around the limits of lines 135-138
PortInputs == {0, 1, 5432, 65535, 65536}

\* what get_credentials collected: whether user, password and database of a
\* side are all non-empty, and the two ports after int()
CredentialInputs ==
    [mysql_fields : BOOLEAN, pg_fields : BOOLEAN,
     mysql_port : PortInputs, pg_port : PortInputs]

\* how reading the inputs (lines 96-125) can end: input() raises EOFError on a
\* closed stdin, int() raises ValueError on a port that is no number
ReadResults == {"ok", "EOFError", "KeyboardInterrupt", "port_not_a_number"}

\* lines 127-138: the validation; "ok" or the exception raised
get_credentials(inp) ==
    IF ~inp.mysql_fields THEN "ValueError"
    ELSE IF ~inp.pg_fields THEN "ValueError"
    ELSE IF ~(1 <= inp.mysql_port /\ inp.mysql_port <= 65535) THEN "ValueError"
    ELSE IF ~(1 <= inp.pg_port /\ inp.pg_port <= 65535) THEN "ValueError"
    ELSE "ok"

\* the process starts: nothing is connected yet
InitProc ==
    /\ InitData
    /\ pc = "credentials"
    /\ opened = {}

\* lines 923-937 around get_credentials (line 924)
GetCredentials ==
    /\ pc = "credentials"
    /\ \E inp \in CredentialInputs, read \in ReadResults :
         LET ended == CASE read = "EOFError"          -> "Exception"
                        [] read = "KeyboardInterrupt" -> "KeyboardInterrupt"
                        [] read = "port_not_a_number" -> "ValueError"
                        [] OTHER                      -> get_credentials(inp)
         IN  IF ended = "ok"
             THEN /\ pc' = "connect_mysql"
                  /\ UNCHANGED <<log, outcome, exit_status>>
             ELSE /\ pc' = "done"
                  /\ log' = Append(log, <<IF ended = "KeyboardInterrupt"
                                          THEN "WARNING" ELSE "ERROR",
                                          "top_level", "", ended>>)
                  /\ outcome' = [status |-> "not_started", pass |-> 0, kind |-> ended]
                  /\ exit_status' = ExitStatus(ended)
    /\ UNCHANGED <<depVars, pureVars, tables, ti, offset, src_rows, pg_work, pg_committed,
                   pg_aborted, commits, stmts, batch_result, reads, visits,
                   opened, closed>>

\* lines 795-800: the one call of mysql.connector.connect, announced in the
\* log; a failed connect raises mysql.connector.Error (line 881)
ConnectMySQL ==
    /\ pc = "connect_mysql"
    /\ \E connected \in BOOLEAN :
         LET c == Logged(Conn, "INFO", "connecting", "mysql", 0)
         IN  IF connected
             THEN /\ opened' = opened \cup {"mysql_conn", "mysql_cursor"}
                  /\ pc' = "connect_pg"
                  /\ SetConn(c)
                  /\ UNCHANGED <<ti, outcome, closed, exit_status>>
             ELSE Abort(c, 0, "mysql_error")
    /\ UNCHANGED <<depVars, pureVars, tables, offset, src_rows, batch_result, reads, visits>>

\* lines 802-808: the one call of psycopg2.connect, announced in the log; a
\* failed connect raises psycopg2.Error (line 887)
ConnectPostgres ==
    /\ pc = "connect_pg"
    /\ \E connected \in BOOLEAN :
         LET c == Logged(Conn, "INFO", "connecting", "postgres", 0)
         IN  IF connected
             THEN /\ opened' = opened \cup {"pg_conn", "pg_cursor"}
                  /\ pc' = "order"
                  /\ SetConn(c)
                  /\ UNCHANGED <<ti, outcome, closed, exit_status>>
             ELSE Abort(c, 0, "postgres_error")
    /\ UNCHANGED <<depVars, pureVars, tables, offset, src_rows, batch_result, reads, visits>>

\* the pass migrate_all is in
CurrentPass ==
    CASE pc = "pass1" -> 1 [] pc = "pass2" -> 2 [] pc = "pass3" -> 3
      [] pc = "pass4" -> 4 [] pc = "pass5" -> 5 [] pc = "pass6" -> 6
      [] pc = "report" -> 7 [] OTHER -> 0

\* Ctrl-C inside migrate_all: KeyboardInterrupt is no Exception, so none of the
\* except clauses of lines 881-898 runs and nothing is rolled back by the code;
\* the finally block closes, the exception reaches line 930, and the open
\* transaction ends with the connection
Interrupt ==
    /\ pc \notin {"credentials", "done"}
    /\ Finally(Logged([Conn EXCEPT !.work = Conn.committed, !.aborted = FALSE],
                      "WARNING", "top_level", "", "KeyboardInterrupt"),
               "KeyboardInterrupt")
    /\ ti' = ti
    /\ outcome' = [status |-> "interrupted", pass |-> CurrentPass,
                   kind |-> "KeyboardInterrupt"]
    /\ UNCHANGED <<depVars, pureVars, tables, offset, src_rows, batch_result, reads, visits>>

NextProc ==
    \/ GetCredentials
    \/ ConnectMySQL
    \/ ConnectPostgres
    \/ Interrupt
    \/ Next

SpecProc == InitProc /\ [][NextProc]_vars

---------------------------------------------------------------------------
(* get_table_dependencies on every bounded input *)

\* the table names of the listings handed to the resolver
DepTables == <<"a", "b", "c", "d">>

InitDep ==
    /\ all_tables \in {SubSeq(DepTables, 1, n) : n \in 0..Len(DepTables)}
    /\ dependencies = <<>>
    /\ dep_result = NoResult
    /\ pc = "idle"
    /\ tables = <<>>
    /\ ti = 0
    /\ offset = 0
    /\ src_rows = [t \in TableUniverse |-> [n |-> 0, bad |-> {}]]
    /\ pg_work = EmptyDb
    /\ pg_committed = EmptyDb
    /\ pg_aborted = FALSE
    /\ commits = 0
    /\ log = <<>>
    /\ stmts = {}
    /\ batch_result = NoBatch
    /\ reads = <<>>
    /\ outcome = Running
    /\ visits = <<>>
    /\ opened = {}
    /\ closed = {}
    /\ exit_status = -1
    /\ row = NoRow
    /\ sanitized = NotSanitized
    /\ columns = <<>>
    /\ schema = NoSchema

\* lines 307-323: the next row of the SELECT DISTINCT over the FK metadata, a
\* (child, parent) pair of listed tables the result does not hold yet
FetchDependency ==
    /\ pc = "idle"
    /\ dep_result.none
    /\ Len(dependencies) < MaxEdges
    /\ \E dep \in (Range(all_tables) \X Range(all_tables)) \ Range(dependencies) :
            dependencies' = Append(dependencies, dep)
    /\ UNCHANGED <<all_tables, dep_result, runVars, pureVars>>

\* lines 325-364 applied to the listing and the FK rows
Resolve ==
    /\ pc = "idle"
    /\ dep_result.none
    /\ dep_result' = get_table_dependencies(all_tables, dependencies)
    /\ UNCHANGED <<all_tables, dependencies, runVars, pureVars>>

NextDep ==
    \/ FetchDependency
    \/ Resolve

SpecDep == InitDep /\ [][NextDep]_vars

---------------------------------------------------------------------------
(* sanitize_row on bounded source rows *)

\* n written with that many digits, leading zeros included
RECURSIVE Digits(_, _)
Digits(n, width) ==
    IF width = 0 THEN <<>>
    ELSE Append(Digits(n \div 10, width - 1), DigitChars[(n % 10) + 1])

\* the text YYYY-MM-DD of three numbers
DateString(y, m, d) == Digits(y, 4) \o <<"-">> \o Digits(m, 2) \o <<"-">> \o Digits(d, 2)

DateYears == {0, 1, 1900, 2000, 2023, 2024}

DateMonths == {0, 1, 2, 4, 12, 13}

DateDays == {0, 1, 15, 28, 29, 30, 31, 32, 99}

\* what follows the date in a source string: nothing, or a time of day
DateSuffixes == {<<>>, <<" ", "1", "0", ":", "0", "0", ":", "0", "0">>}

DateStrings ==
    {DateString(y, m, d) \o sfx :
        y \in DateYears, m \in DateMonths, d \in DateDays, sfx \in DateSuffixes}

\* strings the regular expression of line 168 does not match
OtherStrings ==
    {<<>>,
     <<"h", "i">>,
     <<"2", "0", "2", "4", "-", "1", "-", "1", "5">>,
     <<"2", "0", "2", "4", "/", "0", "1", "/", "1", "5">>,
     <<" ", "2", "0", "2", "4", "-", "0", "1", "-", "1", "5">>,
     <<"0", "0", "0", "0", "-", "0", "0">>}

\* the values a source row may hold
SourceValues ==
    {NoneValue, Bytes(<<0, 255>>), Bytes(DateString(2024, 13, 99)),
     Bytes(DateString(0, 0, 0)), Number(0), Number(20241399)}
    \cup {Str(c) : c \in DateStrings \cup OtherStrings}

\* the values tried side by side in rows of two columns
PairedValues ==
    {NoneValue, Bytes(DateString(0, 0, 0)), Number(0), Str(DateString(0, 0, 0)),
     Str(DateString(2024, 1, 15)), Str(DateString(2024, 13, 99)), Str(<<"h", "i">>)}

\* the MySQL types of the columns the rows are read from: a is a character
\* column, b a date column
RowColumnTypes == [a |-> "varchar", b |-> "datetime"]

SourceRowInputs ==
    {[a |-> v] : v \in SourceValues}
    \cup {[a |-> v, b |-> w] : v \in PairedValues, w \in PairedValues}

InitSan ==
    /\ row \in SourceRowInputs
    /\ sanitized = NotSanitized
    /\ columns = <<>>
    /\ schema = NoSchema
    /\ all_tables = <<>>
    /\ dependencies = <<>>
    /\ dep_result = NoResult
    /\ pc = "idle"
    /\ tables = <<>>
    /\ ti = 0
    /\ offset = 0
    /\ src_rows = [t \in TableUniverse |-> [n |-> 0, bad |-> {}]]
    /\ pg_work = EmptyDb
    /\ pg_committed = EmptyDb
    /\ pg_aborted = FALSE
    /\ commits = 0
    /\ log = <<>>
    /\ stmts = {}
    /\ batch_result = NoBatch
    /\ reads = <<>>
    /\ outcome = Running
    /\ visits = <<>>
    /\ opened = {}
    /\ closed = {}
    /\ exit_status = -1

\* lines 708-711: sanitized = sanitize_row(row); its values, in column order,
\* are what the INSERT stores for the row
Sanitize ==
    /\ pc = "idle"
    /\ ~sanitized.done
    /\ sanitized' = [done |-> TRUE, row |-> sanitize_row(row)]
    /\ UNCHANGED <<row, columns, schema, depVars, runVars>>

NextSan == Sanitize

SpecSan == InitSan /\ [][NextSan]_vars

---------------------------------------------------------------------------
(* get_table_schema on bounded DESCRIBE answers *)

\* the characters the defaults are made of
DefaultChars == {"1", ".", "-", "'", "a", "e", " ", "_"}

\* all strings over DefaultChars of length n
RECURSIVE StringsOfLen(_)
StringsOfLen(n) ==
    IF n = 0 THEN {<<>>}
    ELSE {Append(q, ch) : q \in StringsOfLen(n - 1), ch \in DefaultChars}

\* all strings over DefaultChars of length at most n
StringsUpTo(n) == UNION {StringsOfLen(k) : k \in 0..n}

\* the Default column of DESCRIBE: NULL or a string
ColumnDefaults ==
    {NoneValue, Str(CurrentTimestamp), Str(<<"n", "a", "n">>), Str(<<"i", "n", "f">>),
     Str(<<"1", "e", "+", "1">>), Str(<<"'", "'", "'", "'">>)}
    \cup {Str(chars) : chars \in StringsUpTo(MaxDefaultLen)}

\* the defaults tried with every Field, Null and Key
FewDefaults == {NoneValue, Str(CurrentTimestamp), Str(<<"1">>), Str(<<"a", "'", "a">>)}

\* the base types that can be auto_increment in MySQL
IntegerBaseTypes == {"tinyint", "smallint", "mediumint", "int", "bigint"}

\* the Type column of DESCRIBE
ColumnTypes ==
    {[base |-> b, size |-> "11"] : b \in IntegerBaseTypes}
    \cup {[base |-> "varchar", size |-> "255"], [base |-> "char", size |-> "1"],
          [base |-> "text", size |-> ""], [base |-> "enum", size |-> "'a','b'"],
          [base |-> "set", size |-> "'a','b'"], [base |-> "datetime", size |-> ""],
          [base |-> "decimal", size |-> "10,2"], [base |-> "bit", size |-> "1"]}

\* the Extra column of DESCRIBE for a column of that type, as its words
ColumnExtras(type) ==
    {{}} \cup (IF type.base \in IntegerBaseTypes THEN {{"auto_increment"}} ELSE {})
         \cup (IF type.base = "datetime"
               THEN {{"on", "update", "CURRENT_TIMESTAMP"}} ELSE {})

DescribeRow(field, type, null, key, default, extra) ==
    [Field |-> field, Type |-> type, Null |-> null, Key |-> key,
     Default |-> default, Extra |-> extra]

\* the columns tried side by side in tables of two columns
PairedColumns ==
    {DescribeRow(field, [base |-> base, size |-> ""], "NO", key, default, {}) :
        field \in {"t", "T", "u"}, base \in {"int", "text"}, key \in {"", "PRI"},
        default \in {NoneValue, Str(<<"'">>)}}

\* the DESCRIBE answers tried: no column; one column of every type, default
\* and Extra; one column of every Field, Null and Key with a few defaults;
\* two columns
InitSchema ==
    /\ \/ columns = <<>>
       \/ \E type \in ColumnTypes, default \in ColumnDefaults :
             \E extra \in ColumnExtras(type) :
                columns = <<DescribeRow("t", type, "YES", "", default, extra)>>
       \/ \E type \in ColumnTypes, default \in FewDefaults, field \in {"t", "T"},
             null \in {"YES", "NO"}, key \in {"", "PRI"} :
             \E extra \in ColumnExtras(type) :
                columns = <<DescribeRow(field, type, null, key, default, extra)>>
       \/ \E c \in PairedColumns, d \in PairedColumns : columns = <<c, d>>
    /\ schema = NoSchema
    /\ row = NoRow
    /\ sanitized = NotSanitized
    /\ all_tables = <<>>
    /\ dependencies = <<>>
    /\ dep_result = NoResult
    /\ pc = "idle"
    /\ tables = <<>>
    /\ ti = 0
    /\ offset = 0
    /\ src_rows = [t \in TableUniverse |-> [n |-> 0, bad |-> {}]]
    /\ pg_work = EmptyDb
    /\ pg_committed = EmptyDb
    /\ pg_aborted = FALSE
    /\ commits = 0
    /\ log = <<>>
    /\ stmts = {}
    /\ batch_result = NoBatch
    /\ reads = <<>>
    /\ outcome = Running
    /\ visits = <<>>
    /\ opened = {}
    /\ closed = {}
    /\ exit_status = -1

\* line 826: schema, pkeys, col_mapping = get_table_schema(mysql_cursor, table)
GetTableSchema ==
    /\ pc = "idle"
    /\ ~schema.done
    /\ schema' = get_table_schema(columns)
    /\ UNCHANGED <<row, sanitized, columns, depVars, runVars>>

NextSchema == GetTableSchema

SpecSchema == InitSchema /\ [][NextSchema]_vars

---------------------------------------------------------------------------
(* Claims about get_table_dependencies, checked under SpecDep *)

Resolved == ~dep_result.none

\* the edges of the dependency graph: the FK rows that are no self-reference
EdgeSet == {e \in Range(dependencies) : e[1] # e[2]}

\* S and the parents of its members
WithParents(S) == S \cup {e[2] : e \in {x \in EdgeSet : x[1] \in S}}

RECURSIVE Closure(_, _)
Closure(S, n) == IF n = 0 THEN S ELSE Closure(WithParents(S), n - 1)

\* the tables reachable from t along one or more child -> parent edges
Ancestors(t) == Closure({e[2] : e \in {x \in EdgeSet : x[1] = t}}, Len(all_tables))

\* t is a member of a foreign-key cycle
InCycle(t) == t \in Ancestors(t)

Position(t) == IndexOf(dep_result.ordered, t)

\* C1: in the returned order every parent precedes each child referencing it,
\* for all edges whose two tables are not members of a foreign-key cycle.
C1Orig ==
    Resolved =>
        \A e \in EdgeSet :
            (~InCycle(e[1]) /\ ~InCycle(e[2])) => Position(e[2]) < Position(e[1])

\* C2: for every listing and every FK row list, cycles and self-references
\* included, get_table_dependencies returns without raising and its result
\* holds every listed table exactly once.
C2Thm ==
    Resolved =>
        /\ ~dep_result.raised
        /\ Len(dep_result.ordered) = Len(all_tables)
        /\ \A t \in Range(all_tables) : Occurrences(dep_result.ordered, t) = 1

\* a resolved input with a cycle, a self-reference and a table outside both
C2Witness ==
    /\ Resolved
    /\ dep_result.warned
    /\ \E e \in Range(dependencies) : e[1] = e[2]
    /\ \E t \in Range(all_tables) : InCycle(t)
    /\ \E t \in Range(all_tables) : ~InCycle(t)

---------------------------------------------------------------------------
(* Claims about migrate_all, checked under Spec *)

LogHas(event) == \E i \in 1..Len(log) : log[i][2] = event

\* the tables a record of that event was logged for
LoggedTables(event) == {log[i][3] : i \in {j \in 1..Len(log) : log[j][2] = event}}

\* the tables after t in the resolved order
TablesAfter(t) == {tables[i] : i \in (IndexOf(tables, t) + 1)..Len(tables)}

StatementKinds(table) == {s[1] : s \in {x \in stmts : x[2] = table}}

ConstraintPassKinds ==
    {"max", "setval", "find_sequence", "index", "unique", "fk", "orphan_check",
     "report_count"}

\* migrate_table_data has returned for tables[ti]
TransferDone == pc = "pass2" /\ offset >= src_rows[tables[ti]].n

RejectedIn(vals, table) ==
    {i \in 1..Len(vals) : ~RowAccepted(vals[i], src_rows[table].bad)}

\* C3: when a bulk insert fails because exactly one row of the batch is
\* rejected, the row-by-row fallback inserts and commits every other row of
\* the batch and exactly one row is logged as dropped, for every batch
\* including the first one written in the run.
C3Orig ==
    (/\ ~batch_result.none
     /\ batch_result.fallback
     /\ Cardinality(RejectedIn(batch_result.attempted, batch_result.table)) = 1)
    => /\ Len(batch_result.dropped) = 1
       /\ \A i \in 1..Len(batch_result.attempted) :
            i \notin RejectedIn(batch_result.attempted, batch_result.table)
            => /\ Contains(batch_result.inserted, batch_result.attempted[i])
               /\ BagIn(batch_result.attempted[i],
                        pg_committed.tables[Lower(batch_result.table)].rows)

\* C4: after a failure in passes 1-3 the target holds none of the tables and
\* none of the rows written by the run.
C4Orig ==
    (pc = "done" /\ outcome.status = "failed" /\ outcome.pass \in 1..3)
    => pg_committed = EmptyDb

\* C5: once the row-count check has failed for a table the run has ended
\* without commit and report, no later table had data transferred or counted,
\* and no sequence, index, unique-constraint, foreign-key or validation
\* statement was executed.
C5Thm ==
    \A f \in LoggedTables("row_count_mismatch") :
        /\ pc = "done"
        /\ outcome.status = "failed"
        /\ ~LogHas("migration_report")
        /\ ~LogHas("all_tables_migrated")
        /\ \A t \in Range(tables) : StatementKinds(t) \cap ConstraintPassKinds = {}
        /\ \A t \in TablesAfter(f) : StatementKinds(t) \subseteq {"create"}

\* a mismatch on a table that is followed by a table holding rows
C5Witness ==
    \E f \in LoggedTables("row_count_mismatch") :
        \E t \in TablesAfter(f) : src_rows[t].n > 0

\* C6: a row rejected in the row-by-row fallback is dropped without aborting
\* the run: pass 2 goes on with the tables that follow.
C6Orig ==
    pc = "done" =>
        \A f \in LoggedTables("failed_row_insert") :
            \A t \in TablesAfter(f) : "count" \in StatementKinds(t)

\* C7: after migrate_table_data on a table whose N rows the target accepts
\* the target table holds exactly N rows, so that the row-count check passes.
C7Orig ==
    (TransferDone /\ src_rows[tables[ti]].bad = {})
    => /\ TableExists(Conn, Lower(tables[ti]))
       /\ RowCount(Conn, Lower(tables[ti])) = src_rows[tables[ti]].n

\* C8: the batches of a table partition its rows: every source row is read
\* exactly once.
C8Orig ==
    TransferDone =>
        \A r \in SourceRows(tables[ti], src_rows[tables[ti]].n) :
            Occurrences(reads, r) = 1

\* C9: a failed index, unique-constraint or foreign-key statement is only a
\* warning: the run still reaches the final commit and the report.
C9Orig ==
    (pc = "done" /\ LogHas("constraint_failed"))
    => /\ outcome.status = "committed"
       /\ LogHas("migration_report")

\* C10: orphaned references found in pass 6 never abort the run: each finding
\* is logged as a warning, pass 6 goes on with the next table, and the run
\* ends with the report and the final commit.
C10Thm ==
    LogHas("orphaned_records") =>
        /\ outcome.status # "failed"
        /\ pc \in {"pass6", "report", "done"}
        /\ LoggedTables("orphaned_records") \subseteq LoggedTables("fk_validation_issues")
        /\ pc = "done" =>
             /\ outcome.status = "committed"
             /\ LogHas("migration_report")
             /\ \A t \in Range(tables) : "orphan_check" \in StatementKinds(t)

\* a committed run in which a table with orphaned references was followed by
\* another table in pass 6
C10Witness ==
    /\ pc = "done"
    /\ outcome.status = "committed"
    /\ \E f \in LoggedTables("orphaned_records") : TablesAfter(f) # {}

\* the names of the constraints whose statement succeeded
AddedConstraints ==
    {log[i][4] : i \in {j \in 1..Len(log) : log[j][2] = "constraint_added"}}

CommittedConstraintNames == {k.name : k \in pg_committed.constraints}

CommittedRowCount(target) == BagCardinality(pg_committed.tables[target].rows)

VisitIndex(pass, t) ==
    IF pass = 5 THEN Len(tables) + 1 - IndexOf(tables, t) ELSE IndexOf(tables, t)

\* number of batches transferred for a table so far
BatchesOf(t) == Cardinality({i \in 1..Len(visits) : visits[i] = <<2, "transfer", t>>})

\* C12: the calls of migrate_all come pass by pass in the order 1..6, a pass
\* begins only after the previous one visited every table, passes 1-4 and 6
\* visit the tables in the resolved order and pass 5 in the reverse order, and
\* the sequences of a table are reconciled only after all its batches.
\* Every call is appended to visits when it is made, so each call is compared
\* with all the calls before it in the state in which it is the latest.
C12Thm ==
    visits # <<>> =>
        LET j == Len(visits)
        IN  /\ \A i \in 1..(j - 1) :
                 /\ visits[i][1] <= visits[j][1]
                 /\ visits[i][1] = visits[j][1] =>
                      VisitIndex(visits[i][1], visits[i][3])
                         <= VisitIndex(visits[j][1], visits[j][3])
                 /\ visits[i] = visits[j] => visits[i][2] = "transfer"
                 /\ visits[i][2] = "count" =>
                      visits[j] # <<2, "transfer", visits[i][3]>>
            /\ visits[j][1] > 1 =>
                 \A t \in Range(tables) :
                    \E i \in 1..(j - 1) :
                       /\ visits[i][1] = visits[j][1] - 1
                       /\ visits[i][3] = t
                       /\ visits[i][2] # "transfer"
            /\ visits[j][2] = "sequences" =>
                 BatchesOf(visits[j][3]) * batch_size >= src_rows[visits[j][3]].n

\* a committed run over two tables, one of them transferred in several batches
C12Witness ==
    /\ pc = "done"
    /\ outcome.status = "committed"
    /\ Len(tables) = 2
    /\ \E t \in Range(tables) : BatchesOf(t) > 1
    /\ Cardinality({i \in 1..Len(visits) : visits[i][1] = 5}) = 2

\* C13: whenever an insert into a target table is attempted, in a bulk batch
\* or in the row-by-row fallback, the table was created earlier in the run and
\* exists in the target at that moment.
C13Orig ==
    ~batch_result.none =>
        /\ Contains(visits, <<1, "create", batch_result.table>>)
        /\ batch_result.no_table = <<>>

---------------------------------------------------------------------------
(* Claims about the whole process, checked under SpecProc *)

\* C14: on every exit path of migrate_all every connection and cursor opened
\* during the run has been closed when the call ends.
C14Orig == pc = "done" => closed = opened

\* C15: the process exits with a non-zero status when credential validation
\* fails, when the user interrupts it, or when an unexpected error reaches the
\* top level; in every other case, runs with constraint or orphan warnings
\* included, it ends with status zero.
C15Thm ==
    /\ pc # "done" => exit_status = -1
    /\ pc = "done" =>
         /\ exit_status \in {0, 1}
         /\ exit_status = 1 <=> LogHas("top_level")
         /\ outcome.status \in {"not_started", "interrupted"} => exit_status = 1
         /\ outcome.status \in {"committed", "no_tables"} => exit_status = 0
         /\ outcome.status = "not_started" =>
              outcome.kind \in {"ValueError", "KeyboardInterrupt", "Exception"}

\* a committed run that logged an orphan warning and ended with status zero
C15Witness ==
    /\ pc = "done"
    /\ exit_status = 0
    /\ outcome.status = "committed"
    /\ LogHas("orphaned_records")

---------------------------------------------------------------------------
(* Claims about update_sequences, checked under Spec *)

\* pass 3 is over and the run has not failed
AfterPass3 ==
    \/ pc \in {"pass4", "pass5", "pass6", "report"}
    \/ pc = "done" /\ outcome.status = "committed"

\* C16: after pass 3 every auto-increment column of a table that received at
\* least one row has a backing sequence in the target whose next value is the
\* maximum of the column plus one.
C16Orig ==
    AfterPass3 =>
        \A t \in Range(tables) :
            (AutoIncrementType[t] # "none" /\ RowCount(Conn, Lower(t)) > 0)
            => /\ pg_work.tables[Lower(t)].serial
               /\ pg_work.tables[Lower(t)].nextval =
                    Max({v[2] : v \in BagToSet(pg_work.tables[Lower(t)].rows)}) + 1

\* C17: whenever no sequence could be advanced for an auto-increment column an
\* error-level entry is logged for it and the run goes on with the next
\* column and table.
C17Orig ==
    \A f \in LoggedTables("could_not_update_sequence") :
        /\ f \in LoggedTables("failed_to_update_sequence")
        /\ pc = "done" => ~(outcome.status = "failed" /\ outcome.pass = 3)

---------------------------------------------------------------------------
(* Claims about sanitize_row, checked under SpecSan *)

MonthLengths == <<31, 28, 31, 30, 31, 30, 31, 31, 30, 31, 30, 31>>

Divides(k, n) == \E q \in 0..n : k * q = n

\* y-m-d is a date of the calendar
ValidCalendarDate(y, m, d) ==
    /\ y \in 1..9999
    /\ m \in 1..12
    /\ d >= 1
    /\ d <= MonthLengths[m]
            + (IF m = 2 /\ Divides(4, y) /\ (~Divides(100, y) \/ Divides(400, y))
               THEN 1 ELSE 0)

\* what the claim says a date string becomes
ExpectedDateValue(y, m, d, value) ==
    IF (y = 0 /\ m = 0 /\ d = 0) \/ ~ValidCalendarDate(y, m, d)
    THEN NoneValue ELSE value

\* C18: sanitize_row keeps the keys of the row; null stays null; a string with
\* a YYYY-MM-DD prefix becomes null when the prefix is 0000-00-00 or no valid
\* calendar date and is unchanged when the prefix is a valid date; binary and
\* all other values are unchanged.
C18Thm ==
    sanitized.done =>
        /\ DOMAIN sanitized.row = DOMAIN row
        /\ \A key \in DOMAIN row :
             LET value == row[key]
                 out   == sanitized.row[key]
             IN  /\ value.kind = "none" => out = NoneValue
                 /\ value.kind \in {"bytes", "int"} => out = value
                 /\ value.kind = "str" =>
                      /\ value.chars \in OtherStrings => out = value
                      /\ \A y \in DateYears, m \in DateMonths, d \in DateDays :
                           \A sfx \in DateSuffixes :
                              value.chars = DateString(y, m, d) \o sfx
                              => out = ExpectedDateValue(y, m, d, value)
                      /\ value.chars = <<"0", "0", "0", "0", "-", "0", "0", "-", "0", "0">>
                           => out = NoneValue
                      /\ value.chars = <<"2", "0", "2", "4", "-", "1", "3", "-", "9", "9">>
                           => out = NoneValue
                      /\ value.chars = <<"2", "0", "2", "4", "-", "0", "1", "-", "1", "5">>
                           => out = value

\* a sanitized row of two columns, one an invalid date that became null and
\* one a valid date that passed unchanged
C18Witness ==
    /\ sanitized.done
    /\ DOMAIN row = {"a", "b"}
    /\ row.a = Str(<<"2", "0", "2", "4", "-", "1", "3", "-", "9", "9">>)
    /\ sanitized.row.a = NoneValue
    /\ row.b = Str(<<"2", "0", "2", "4", "-", "0", "1", "-", "1", "5">>)
    /\ sanitized.row.b = row.b

---------------------------------------------------------------------------
(* Further claims about get_table_dependencies, checked under SpecDep *)

IsSelfReference(dep) == dep[1] = dep[2]

\* the FK rows whose child is t
RowsOfChild(t) == {dep \in Range(dependencies) : dep[1] = t}

\* t has foreign keys, and each of them references t itself
OnlySelfReferences(t) ==
    RowsOfChild(t) # {} /\ \A dep \in RowsOfChild(t) : IsSelfReference(dep)

\* the part of the result behind what the while loop emitted
FallbackPart ==
    SubSeq(dep_result.ordered, Len(dep_result.emitted) + 1, Len(dep_result.ordered))

\* C19: a self-referencing foreign key adds no edge and no in-degree: the
\* result is the one of the same rows without the self-references; a table
\* whose only foreign keys reference itself is emitted by the zero-in-degree
\* phase and is not in the cycle fallback; self-references alone cause no
\* circular-dependency warning.
C19Thm ==
    Resolved =>
        /\ dep_result =
              get_table_dependencies(all_tables,
                  SelectSeq(dependencies, LAMBDA dep : ~IsSelfReference(dep)))
        /\ \A t \in Range(all_tables) :
              OnlySelfReferences(t) =>
                 /\ Contains(dep_result.emitted, t)
                 /\ ~Contains(FallbackPart, t)
        /\ (\A dep \in Range(dependencies) : IsSelfReference(dep)) => ~dep_result.warned

\* a resolved input where a table references itself only and is the parent of
\* another table, next to a cycle of two other tables that is warned about
C19Witness ==
    /\ Resolved
    /\ dep_result.warned
    /\ \E t \in Range(all_tables) :
          /\ OnlySelfReferences(t)
          /\ \E dep \in Range(dependencies) : dep[2] = t /\ dep[1] # t
          /\ Contains(dep_result.emitted, t)

\* C20: when the while loop ends without covering all tables, exactly the
\* tables it did not emit follow the emitted ones, in listing order, and one
\* warning is recorded; when it covers all tables the result is what it
\* emitted and no warning is recorded.
C20Thm ==
    Resolved =>
        /\ SubSeq(dep_result.ordered, 1, Len(dep_result.emitted)) = dep_result.emitted
        /\ IF Range(dep_result.emitted) # Range(all_tables)
           THEN /\ dep_result.warned
                /\ FallbackPart =
                      SelectSeq(all_tables, LAMBDA t : t \notin Range(dep_result.emitted))
           ELSE /\ ~dep_result.warned
                /\ FallbackPart = <<>>

\* a resolved input whose fallback holds two tables or more behind a
\* non-empty emitted part, the result differing from the listing
C20Witness ==
    /\ Resolved
    /\ dep_result.emitted # <<>>
    /\ Len(FallbackPart) >= 2
    /\ dep_result.ordered # all_tables

---------------------------------------------------------------------------
(* Claims about connecting, checked under SpecProc *)

\* the connection attempts made to a database
ConnectAttempts(db) ==
    Cardinality({i \in 1..Len(log) : log[i][2] = "connecting" /\ log[i][3] = db})

\* the run was declared failed because connecting to db failed
FailedConnecting(db) ==
    /\ pc = "done"
    /\ outcome.status = "failed"
    /\ IF db = "mysql" THEN "mysql_conn" \notin opened
       ELSE "mysql_conn" \in opened /\ "pg_conn" \notin opened

\* C21: a failed connection attempt to the source or the target database is
\* retried after the back-off delay, and the run is declared failed only
\* after the retries are exhausted: a run that failed connecting made every
\* attempt retry_operation allows.
C21Orig ==
    \A db \in {"mysql", "postgres"} :
        FailedConnecting(db) => ConnectAttempts(db) = max_retries

---------------------------------------------------------------------------
(* Claims about get_table_schema, checked under SpecSchema *)

\* the columns of the table that are auto_increment
AutoIncrementColumns == {i \in 1..Len(columns) : HasAutoIncrement(columns[i].Extra)}

\* the target types backed by a sequence
AutoSequenceTypes == {"SERIAL", "BIGSERIAL"}

\* C22: for every auto-increment source column the emitted type is the
\* target auto-sequence type, SERIAL when the mapped type is INTEGER and
\* BIGSERIAL when it is BIGINT, and the column definition has no DEFAULT
\* clause, whatever default the source reports.
C22Orig ==
    schema.done =>
        \A i \in AutoIncrementColumns :
            LET mapped == TypeMapping(columns[i].Type.base)
                def    == schema.column_defs[i]
            IN  /\ def.pg_type \in AutoSequenceTypes
                /\ mapped = "INTEGER" => def.pg_type = "SERIAL"
                /\ mapped = "BIGINT" => def.pg_type = "BIGSERIAL"
                /\ ~def.default.present

\* the text a quoted string stands for: each doubled quote is one quote; ok
\* is FALSE when a quote stands alone
RECURSIVE Unescape(_)
Unescape(chars) ==
    IF chars = <<>> THEN [ok |-> TRUE, chars |-> <<>>]
    ELSE IF Head(chars) = "'"
         THEN IF Len(chars) >= 2 /\ chars[2] = "'"
              THEN LET rest == Unescape(SubSeq(chars, 3, Len(chars)))
                   IN  [ok |-> rest.ok, chars |-> <<"'">> \o rest.chars]
              ELSE [ok |-> FALSE, chars |-> <<>>]
         ELSE LET rest == Unescape(Tail(chars))
              IN  [ok |-> rest.ok, chars |-> <<Head(chars)>> \o rest.chars]

\* text is a single-quoted string without an undoubled quote that stands for source
IsQuotedDefault(text, source) ==
    /\ Len(text) >= 2
    /\ text[1] = "'"
    /\ text[Len(text)] = "'"
    /\ LET inner == Unescape(SubSeq(text, 2, Len(text) - 1))
       IN  inner.ok /\ inner.chars = source

\* text is the source default itself, it parses as a number and holds no quote
IsNumberDefault(text, source) ==
    text = source /\ FloatParses(text) /\ ~Contains(text, "'")

\* the columns that are not auto_increment and have a default
ColumnsWithDefault ==
    {i \in 1..Len(columns) :
        ~HasAutoIncrement(columns[i].Extra) /\ columns[i].Default # NoneValue}

\* C23: for every non-auto-increment column with a default, the emitted
\* DEFAULT clause is CURRENT_TIMESTAMP, a token that parses as a number, or a
\* single-quoted string in which every single quote of the source default is
\* doubled; no emitted quoted default holds an undoubled single quote.
C23Thm ==
    schema.done =>
        \A i \in ColumnsWithDefault :
            LET clause == schema.column_defs[i].default
                source == columns[i].Default.chars
            IN  /\ clause.present
                /\ \/ clause.text = CurrentTimestamp
                   \/ IsNumberDefault(clause.text, source)
                   \/ IsQuotedDefault(clause.text, source)
                /\ (clause.text # <<>> /\ clause.text[1] = "'")
                      => IsQuotedDefault(clause.text, source)

\* a schema with a column of a type that is not always quoted whose default
\* holds a single quote, and a column with a numeric default emitted as it is
C23Witness ==
    /\ schema.done
    /\ \E i \in ColumnsWithDefault :
          /\ columns[i].Type.base \notin QuotedBaseTypes
          /\ Contains(columns[i].Default.chars, "'")
          /\ Len(schema.column_defs[i].default.text) > Len(columns[i].Default.chars) + 2
          /\ IsQuotedDefault(schema.column_defs[i].default.text, columns[i].Default.chars)

---------------------------------------------------------------------------
(* Further claims about migrate_all, checked under Spec *)

\* the foreign-key columns of table whose orphan query was executed
OrphanChecked(table) == {x[3] : x \in {y \in stmts : y[1] = "orphan_check" /\ y[2] = table}}

ForeignKeyColumns(table) ==
    LET foreign_keys == get_foreign_keys(all_tables, table)
    IN  {foreign_keys[i].COLUMN_NAME : i \in 1..Len(foreign_keys)}

\* C24: in pass 6 the orphan check is run for every foreign key of every
\* table, also for the foreign keys behind one of the same table that was
\* found to have orphaned rows: once pass 6 is over with no database error,
\* every foreign key of every table has been checked.
C24Orig ==
    (pc \in {"report", "done"} /\ outcome.status # "failed") =>
        \A t \in Range(tables) : ForeignKeyColumns(t) \subseteq OrphanChecked(t)

---------------------------------------------------------------------------
(* The order of the tables without a parent, checked under SpecDep *)

\* the listed tables that are the child of no edge, in listing order
TablesWithoutParent ==
    SelectSeq(all_tables, LAMBDA t : \A e \in EdgeSet : e[1] # t)

\* C25: in the returned order the tables that have no parent (self-references
\* set aside) come first, in their listing order, before every table that has
\* a parent; the result is a function of the listing and the edge list.
C25Thm ==
    Resolved =>
        /\ SubSeq(dep_result.ordered, 1, Len(TablesWithoutParent)) = TablesWithoutParent
        /\ \A t \in Range(all_tables) :
              Contains(TablesWithoutParent, t) <=> Position(t) <= Len(TablesWithoutParent)
        /\ dep_result = get_table_dependencies(all_tables, dependencies)

\* a resolved input with two tables or more without a parent that are not
\* the head of the listing, and a table that has a parent
C25Witness ==
    /\ Resolved
    /\ Len(TablesWithoutParent) >= 2
    /\ Len(TablesWithoutParent) < Len(all_tables)
    /\ SubSeq(all_tables, 1, Len(TablesWithoutParent)) # TablesWithoutParent

---------------------------------------------------------------------------
(* Claims about the target tables of pass 1, checked under Spec *)

\* the target tables the CREATE TABLE statements of this run created
CreatedTargets ==
    {log[i][4] : i \in {j \in 1..Len(log) : log[j][2] = "created_table"}}

\* C26: pass 1 leaves one distinct target table per source table, names that
\* differ only in letter case included: the tables created are as many as
\* the source tables they were created for, and while pass 1 runs each of
\* them is still there.
C26Orig ==
    /\ Cardinality(CreatedTargets) = Cardinality(LoggedTables("created_table"))
    /\ (pc = "pass1" /\ ~pg_aborted) =>
          \A target \in CreatedTargets : TableExists(Conn, target)

---------------------------------------------------------------------------
(* Further claims about the whole process, checked under SpecProc *)

\* C27: every exception raised inside migrate_all is caught inside it and
\* none reaches the top-level handler: once the credentials have validated,
\* the process exits with status zero both when the migration committed and
\* when it failed fatally.
C27Orig ==
    (pc = "done" /\ outcome.status \in {"committed", "no_tables", "failed"}) =>
        /\ exit_status = 0
        /\ ~LogHas("top_level")

---------------------------------------------------------------------------
(* Claims about the values transferred, checked under SpecSan *)

\* the MySQL types of date and timestamp columns
DateColumnTypes == {"date", "datetime", "timestamp"}

\* C28: each value stored in the target equals the source value, except the
\* values of date or timestamp columns that hold the all-zero date or an
\* invalid date, which become null; a string value of a non-date column is
\* never changed by the transfer.
C28Orig ==
    sanitized.done =>
        \A key \in DOMAIN row :
            \/ sanitized.row[key] = row[key]
            \/ /\ RowColumnTypes[key] \in DateColumnTypes
               /\ sanitized.row[key] = NoneValue

===========================================================================
